---------------------------- MODULE Spec2Model ----------------------------
(***************************************************************************)
(* The relying-party verification core of libu2f-server                    *)
(* (src/u2f-server/core.c): the ceremony context, the two binary framers   *)
(* and the two verification flows, u2fs_registration_verify and            *)
(* u2fs_authentication_verify, each modelled statement group by statement  *)
(* group with the heap it allocates and releases.                          *)
(*                                                                         *)
(* Conventions.                                                            *)
(*  - A C pointer is NULL (the empty tuple) or Ptr(v), a one-element tuple *)
(*    holding the pointee.  A C string is a tuple of non-zero bytes.       *)
(*  - data[i] of the C source (0-based) is data[i + 1] here.               *)
(*  - SHA-256 is the free constructor Hash: distinct inputs give distinct  *)
(*    digests.                                                             *)
(*  - malloc, calloc, strdup and the JSON allocator are taken to succeed;  *)
(*    set_random_bytes is taken to succeed.                                *)
(*  - The content of each member of a response is drawn at the statement   *)
(*    that first reads it; the code reads nothing of it earlier, so the    *)
(*    behaviours are those of drawing the whole response at the call.      *)
(***************************************************************************)
EXTENDS Integers, Sequences, FiniteSets, TLC

(***************************************************************************)
(* Return codes (u2fs_rc).                                                 *)
(***************************************************************************)
U2FS_OK == "OK"
U2FS_MEMORY_ERROR == "MEMORY_ERROR"
U2FS_JSON_ERROR == "JSON_ERROR"
U2FS_CHALLENGE_ERROR == "CHALLENGE_ERROR"
U2FS_ORIGIN_ERROR == "ORIGIN_ERROR"
U2FS_FORMAT_ERROR == "FORMAT_ERROR"
U2FS_SIGNATURE_ERROR == "SIGNATURE_ERROR"
U2FS_CRYPTO_ERROR == "CRYPTO_ERROR"

(***************************************************************************)
(* Program constants.                                                      *)
(***************************************************************************)
U2FS_CHALLENGE_RAW_LEN == 32
U2FS_CHALLENGE_B64U_LEN == 43
U2FS_PUBLIC_KEY_LEN == 65
U2FS_COUNTER_LEN == 4
B64_BUFSIZE == 2048
RegistrationReservedByte == 5
RegistrationMinLen == 131
DerSequenceTag == 48
DerLongLength2 == 130

(***************************************************************************)
(* Bounds of the model.                                                    *)
(***************************************************************************)
\* key-handle length bytes drawn: 0..MaxShortKeyHandle and 255
MaxShortKeyHandle == 1
\* a blob's length is drawn up to MaxSlack bytes around the end of its
\* certificate, and up to MaxSlack bytes above the framers' minimum
MaxSlack == 2
\* bytes that may follow the JSON text in a decoded clientData
MaxTail == 2

(***************************************************************************)
(* Pointers and C strings.                                                 *)
(***************************************************************************)
NULL == <<>>
Ptr(v) == <<v>>
Deref(p) == p[1]

Range(s) == {s[i] : i \in DOMAIN s}

\* index of the first NUL of a byte tuple, Len + 1 when it holds none
FirstNul(bytes) ==
  IF \E i \in DOMAIN bytes : bytes[i] = 0
  THEN CHOOSE i \in DOMAIN bytes :
         bytes[i] = 0 /\ \A j \in 1..(i - 1) : bytes[j] # 0
  ELSE Len(bytes) + 1

\* strlen of a NUL-terminated buffer holding these bytes
strlen(bytes) == FirstNul(bytes) - 1

\* a comparison of the lengths alone
strcmp0_LengthOnly(a, b) == Len(a) = Len(b)

\* strcmp(a, b) = 0 on two C strings
strcmp0(a, b) == a = b

Fill(n, b) == [i \in 1..n |-> b]

Hash(x) == <<"SHA256", x>>

(***************************************************************************)
(* Websafe base64 without padding, the encoding encode_b64u produces for   *)
(* the challenge and the key handle (base64_encode_block and _blockend of  *)
(* b64/cencode.c).                                                         *)
(***************************************************************************)
\* the character of a 6-bit value in the websafe alphabet A-Z a-z 0-9 - _
B64uChar(v) ==
  IF v < 26 THEN 65 + v
  ELSE IF v < 52 THEN 97 + (v - 26)
  ELSE IF v < 62 THEN 48 + (v - 52)
  ELSE IF v = 62 THEN 45
  ELSE 95

B64uLen(n) == 4 * (n \div 3) + (IF n % 3 = 0 THEN 0 ELSE (n % 3) + 1)

ByteOr0(bytes, i) == IF i <= Len(bytes) THEN bytes[i] ELSE 0

B64uSextet(bytes, k) ==
  LET q == (k - 1) \div 4
      a == ByteOr0(bytes, 3 * q + 1)
      b == ByteOr0(bytes, 3 * q + 2)
      c == ByteOr0(bytes, 3 * q + 3)
      pos == (k - 1) % 4
  IN  IF pos = 0 THEN a \div 4
      ELSE IF pos = 1 THEN (a % 4) * 16 + (b \div 16)
      ELSE IF pos = 2 THEN (b % 16) * 4 + (c \div 64)
      ELSE c % 64

base64_encode(bytes) ==
  [k \in 1..B64uLen(Len(bytes)) |-> B64uChar(B64uSextet(bytes, k))]

\* encode_b64u(data, data_len, output): the code and the string written
encode_b64u(data) ==
  IF Len(data) * 4 >= B64_BUFSIZE * 3
  THEN [rc |-> U2FS_MEMORY_ERROR, output |-> <<>>]
  ELSE [rc |-> U2FS_OK, output |-> base64_encode(data)]

(***************************************************************************)
(* Values the callers and the devices supply.                              *)
(***************************************************************************)
\* set_random_bytes(buf, 32): the buffers the random source may return
RandomBuffers == {Fill(U2FS_CHALLENGE_RAW_LEN, 255)}

ChalA == Fill(U2FS_CHALLENGE_B64U_LEN, 65)
\* ChalA with its last character changed
ChalB == [ChalA EXCEPT ![U2FS_CHALLENGE_B64U_LEN] = 66]
\* a challenge of 42 characters
ChalShort == Fill(U2FS_CHALLENGE_B64U_LEN - 1, 65)
\* a challenge of 44 characters
ChalLong == Fill(U2FS_CHALLENGE_B64U_LEN + 1, 65)
\* a key handle in websafe base64
KeyHandleA == <<75>>

OriginA == <<104, 97>>
\* OriginA with its last character changed
OriginB == <<104, 98>>
AppIdA == <<104>>

\* an uncompressed P-256 point, and 65 bytes that are none
GoodKey == <<4>> \o Fill(U2FS_PUBLIC_KEY_LEN - 1, 17)
BadKey == <<4>> \o Fill(U2FS_PUBLIC_KEY_LEN - 1, 255)

\* decode_user_key (crypto.c): the 65 bytes are a point of the curve
decode_user_key(bytes) ==
  IF bytes = GoodKey
  THEN [rc |-> U2FS_OK, key |-> Ptr([point |-> bytes])]
  ELSE [rc |-> U2FS_FORMAT_ERROR, key |-> NULL]

(***************************************************************************)
(* The decoded registrationData and signatureData blobs a response may     *)
(* carry.                                                                  *)
(***************************************************************************)
\* the bytes the blobs are filled with where no field fixes them
FillBytes == [keyHandle |-> 176, certificate |-> 204, signature |-> 221]

\* byte i (0-based) of a registrationData laid out as reserved byte b0, key,
\* key-handle length L, key handle, a DER header 30 82 hh ll, filler
RegByteAt(b0, key, L, hh, ll, i) ==
  IF i = 0 THEN b0
  ELSE IF i <= U2FS_PUBLIC_KEY_LEN THEN key[i]
  ELSE IF i = U2FS_PUBLIC_KEY_LEN + 1 THEN L
  ELSE IF i < U2FS_PUBLIC_KEY_LEN + 2 + L THEN FillBytes.keyHandle
  ELSE IF i = U2FS_PUBLIC_KEY_LEN + 2 + L THEN DerSequenceTag
  ELSE IF i = U2FS_PUBLIC_KEY_LEN + 2 + L + 1 THEN DerLongLength2
  ELSE IF i = U2FS_PUBLIC_KEY_LEN + 2 + L + 2 THEN hh
  ELSE IF i = U2FS_PUBLIC_KEY_LEN + 2 + L + 3 THEN ll
  ELSE FillBytes.certificate

RegBlob(b0, key, L, hh, ll, len) ==
  [i \in 1..len |-> RegByteAt(b0, key, L, hh, ll, i - 1)]

KeyHandleLens == (0..MaxShortKeyHandle) \cup {255}
\* the two length bytes of the DER header: 60 and 256 content bytes
DerLengths == {<<0, 60>>, <<1, 0>>}
\* the end of the certificate a blob of these parameters describes
CertEnd(L, der) == U2FS_PUBLIC_KEY_LEN + 2 + L + der[1] * 256 + der[2] + 4
\* lengths around the framer's minimum and around the end of the certificate
RegLens(L, der) ==
  (RegistrationMinLen..(RegistrationMinLen + MaxSlack))
    \cup ((CertEnd(L, der) - 1)..(CertEnd(L, der) + MaxSlack))

\* what lies behind the end of a heap buffer
OutOfBoundsBytes == {0, 255}

\* data[i] for a buffer of len bytes; behind its end, whatever lies there
ReadByte(data, len, i, g) == IF i < len THEN data[i + 1] ELSE g

ReadBytes(data, len, lo, n, g) ==
  [k \in 1..n |-> ReadByte(data, len, lo + k - 1, g)]

\* decode_X509 (crypto.c) on the certLen bytes at data + offset: a
\* certificate lying inside the buffer parses when it is a well-formed one
\* (wellFormed) under a 30 82 header; one reaching behind the buffer parses
\* or not with what lies there (behind).
decode_X509(data, len, offset, certLen, wellFormed, behind) ==
  IF offset + certLen <= len
  THEN IF /\ data[offset + 1] = DerSequenceTag
          /\ data[offset + 2] = DerLongLength2
          /\ wellFormed
       THEN [rc |-> U2FS_OK, cert |-> Ptr("X509")]
       ELSE [rc |-> U2FS_FORMAT_ERROR, cert |-> NULL]
  ELSE IF behind
       THEN [rc |-> U2FS_OK, cert |-> Ptr("X509")]
       ELSE [rc |-> U2FS_FORMAT_ERROR, cert |-> NULL]

\* decode_ECDSA (crypto.c) on the sigLen bytes at data + offset; sigLen is
\* the difference len - offset, negative where the size_t has wrapped
decode_ECDSA(len, offset, sigLen, wellFormed, behind) ==
  IF offset <= len
  THEN IF sigLen > 0 /\ wellFormed
       THEN [rc |-> U2FS_OK, sig |-> Ptr("ECDSA_SIG")]
       ELSE [rc |-> U2FS_FORMAT_ERROR, sig |-> NULL]
  ELSE IF behind
       THEN [rc |-> U2FS_OK, sig |-> Ptr("ECDSA_SIG")]
       ELSE [rc |-> U2FS_FORMAT_ERROR, sig |-> NULL]

\* what the environment decides in one run of a framer: whether the
\* certificate and the signature bytes are well formed, what a read behind
\* the buffer returns, and whether a decoder run behind the buffer succeeds
FramerOracles ==
  [certOK : BOOLEAN, sigOK : BOOLEAN, behindOK : BOOLEAN,
   garbage : OutOfBoundsBytes]

NoFramerResult ==
  [rc |-> "none", stage |-> "none", len |-> 0, user_public_key |-> NULL,
   keyHandle_len |-> 0, keyHandle |-> NULL,
   attestation_certificate |-> NULL, signature |-> NULL,
   certOffset |-> 0, certLen |-> 0, sigOffset |-> 0, signature_len |-> 0,
   reads |-> {}]

\* a range of the buffer handed to memcpy or to a decoder: bytes lo..hi-1
ReadRange(what, lo, hi) == [what |-> what, lo |-> lo, hi |-> hi]

(***************************************************************************)
(* parse_registrationData2.  The result holds the out-parameters, the      *)
(* stage the function returned from, the offsets it computed and the       *)
(* ranges of data it read or handed to a decoder.                          *)
(***************************************************************************)
\* the framer with a strict length comparison
LengthRejected_Strict(len) == len < RegistrationMinLen

\* if (len <= 1 + 65 + 1 + 64)
LengthRejected(len) == len <= RegistrationMinLen

parse_registrationData2(data, len, orc) ==
  IF LengthRejected(len)
  THEN [NoFramerResult EXCEPT !.rc = U2FS_FORMAT_ERROR,
                              !.stage = "length", !.len = len]
  ELSE IF data[1] # RegistrationReservedByte
  THEN [NoFramerResult EXCEPT !.rc = U2FS_FORMAT_ERROR,
                              !.stage = "reserved", !.len = len,
                              !.reads = {ReadRange("reserved", 0, 1)}]
  ELSE
  LET upk == ReadBytes(data, len, 1, U2FS_PUBLIC_KEY_LEN, orc.garbage)
      L == data[2 + U2FS_PUBLIC_KEY_LEN]
      kh == ReadBytes(data, len, 2 + U2FS_PUBLIC_KEY_LEN, L, orc.garbage)
      offset == 2 + U2FS_PUBLIC_KEY_LEN + L
      hh == ReadByte(data, len, offset + 2, orc.garbage)
      ll == ReadByte(data, len, offset + 3, orc.garbage)
      certLen == hh * 256 + ll + 4
      x509 == decode_X509(data, len, offset, certLen, orc.certOK,
                          orc.behindOK)
      sigOffset == offset + certLen
      signature_len == len - sigOffset
      ecdsa == decode_ECDSA(len, sigOffset, signature_len, orc.sigOK,
                            orc.behindOK)
      readsToCert ==
        {ReadRange("reserved", 0, 1),
         ReadRange("user_public_key", 1, 1 + U2FS_PUBLIC_KEY_LEN),
         ReadRange("keyHandle_len", 1 + U2FS_PUBLIC_KEY_LEN,
                   2 + U2FS_PUBLIC_KEY_LEN),
         ReadRange("keyHandle", 2 + U2FS_PUBLIC_KEY_LEN, offset),
         ReadRange("der_length", offset + 2, offset + 4),
         ReadRange("certificate", offset, sigOffset)}
      upto == [NoFramerResult EXCEPT
                 !.len = len, !.user_public_key = Ptr(upk),
                 !.keyHandle_len = L, !.keyHandle = Ptr(kh),
                 !.certOffset = offset, !.certLen = certLen,
                 !.reads = readsToCert]
  IN  IF x509.rc # U2FS_OK
      THEN [upto EXCEPT !.rc = x509.rc, !.stage = "certificate"]
      ELSE IF ecdsa.rc # U2FS_OK
      THEN [upto EXCEPT
              !.rc = ecdsa.rc, !.stage = "signature",
              !.user_public_key = NULL, !.keyHandle_len = 0,
              !.keyHandle = NULL,
              !.attestation_certificate = x509.cert,
              !.sigOffset = sigOffset, !.signature_len = signature_len,
              !.reads = readsToCert \cup
                 {ReadRange("signature", sigOffset,
                            sigOffset + signature_len)}]
      ELSE [upto EXCEPT
              !.rc = U2FS_OK, !.stage = "done",
              !.attestation_certificate = x509.cert,
              !.signature = ecdsa.sig,
              !.sigOffset = sigOffset, !.signature_len = signature_len,
              !.reads = readsToCert \cup
                 {ReadRange("signature", sigOffset,
                            sigOffset + signature_len)}]

(***************************************************************************)
(* parse_signatureData2.                                                   *)
(***************************************************************************)
PresenceBytes == {0, 1, 2, 3, 255}
CounterBytes == {<<0, 0, 0, 7>>, <<1, 2, 3, 4>>}
SigLens == U2FS_COUNTER_LEN..(U2FS_COUNTER_LEN + MaxSlack)

SigBlob(presence, ctr, len) ==
  [i \in 1..len |->
     IF i = 1 THEN presence
     ELSE IF i <= 1 + U2FS_COUNTER_LEN THEN ctr[i - 1]
     ELSE FillBytes.signature]

NoSigResult ==
  [rc |-> "none", stage |-> "none", len |-> 0, raw_presence |-> 0,
   presenceWritten |-> FALSE, user_presence |-> 0,
   counter |-> <<0, 0, 0, 0>>, signature |-> NULL, decoderCalled |-> FALSE]

\* the framer without its presence check
PresenceRejected_Never(user_presence) == FALSE

\* if (*user_presence == 0)
PresenceRejected(user_presence) == user_presence = 0

parse_signatureData2(data, len, orc) ==
  IF len <= 1 + U2FS_COUNTER_LEN
  THEN [NoSigResult EXCEPT !.rc = U2FS_FORMAT_ERROR, !.stage = "length",
                           !.len = len]
  ELSE
  LET user_presence == data[1] % 2      \* data[offset++] & 0x01
      counter == ReadBytes(data, len, 1, U2FS_COUNTER_LEN, orc.garbage)
      offset == 1 + U2FS_COUNTER_LEN
      signature_len == len - offset
      ecdsa == decode_ECDSA(len, offset, signature_len, orc.sigOK,
                            orc.behindOK)
      got == [NoSigResult EXCEPT !.len = len, !.raw_presence = data[1],
                                  !.presenceWritten = TRUE,
                                  !.user_presence = user_presence]
  IN  IF PresenceRejected(user_presence)
      THEN [got EXCEPT !.rc = U2FS_FORMAT_ERROR, !.stage = "presence"]
      ELSE [got EXCEPT !.rc = ecdsa.rc,
                        !.stage = IF ecdsa.rc = U2FS_OK THEN "done"
                                  ELSE "signature",
                        !.counter = counter, !.signature = ecdsa.sig,
                        !.decoderCalled = TRUE]

(***************************************************************************)
(* JSON values (json-c).  A member of an object is missing, null, a string *)
(* or a number; json_object_get_string gives NULL for null and the text of *)
(* the value for a number.                                                 *)
(***************************************************************************)
JMissing == [kind |-> "missing", val |-> <<>>]
JNull == [kind |-> "null", val |-> <<>>]
JStr(s) == [kind |-> "string", val |-> s]
\* the number 5, whose text is "5"
JNum == [kind |-> "number", val |-> <<53>>]

\* u2fs_json_object_object_get followed by json_object_get_string: the
\* string, or NULL where the code returns U2FS_JSON_ERROR
json_get_string(member) ==
  IF member.kind \in {"missing", "null"} THEN NULL ELSE Ptr(member.val)

(***************************************************************************)
(* clientData.  The base64-decoded bytes are the JSON text followed by a   *)
(* tail of bytes; the text holds no NUL byte, the tail may.                *)
(***************************************************************************)
Malformed == [malformed |-> TRUE]
ClientDataDoc(c, o) == [challenge |-> c, origin |-> o]

ClientChallenges == {JStr(ChalA), JStr(ChalB), JStr(<<>>), JMissing}
ClientOrigins == {JStr(OriginA), JStr(OriginB), JMissing}
\* both members strings, or one of them missing, or no JSON text at all
ClientDataTexts ==
  {ClientDataDoc(c, o) : c \in ClientChallenges \ {JMissing},
                         o \in ClientOrigins \ {JMissing}}
    \cup {ClientDataDoc(JMissing, JStr(OriginA)),
          ClientDataDoc(JStr(ChalA), JMissing), Malformed}

\* nothing, or a NUL byte and up to MaxTail - 1 bytes behind it
ClientDataTails ==
  {<<>>} \cup {<<0>> \o Fill(n, 88) : n \in 0..(MaxTail - 1)}

DecodedClientData == [text : ClientDataTexts, tail : ClientDataTails]

\* decode_clientData: the decoded bytes, copied by strndup(data,
\* strlen(data)) out of a zero-filled buffer longer than they are
decode_clientData(decoded) ==
  [rc |-> U2FS_OK,
   output |-> Ptr([text |-> decoded.text,
                   tail |-> SubSeq(decoded.tail, 1, strlen(decoded.tail))])]

\* the bytes sha256_process is given for a buffer and strlen of it
HashedPrefix(cstr) ==
  [text |-> cstr.text, tail |-> SubSeq(cstr.tail, 1, strlen(cstr.tail))]

\* parse_clientData: the code, the two out-parameters as it leaves them,
\* and whether the parsed object is still allocated on return
parse_clientData(cstr) ==
  IF cstr.text = Malformed
  THEN [rc |-> U2FS_JSON_ERROR, challenge |-> NULL, origin |-> NULL,
        joLive |-> FALSE]
  ELSE
  LET c == json_get_string(cstr.text.challenge)
      o == json_get_string(cstr.text.origin)
  IN  IF c = NULL
      THEN [rc |-> U2FS_JSON_ERROR, challenge |-> NULL, origin |-> NULL,
            joLive |-> TRUE]
      ELSE IF o = NULL
      THEN [rc |-> U2FS_JSON_ERROR, challenge |-> c, origin |-> NULL,
            joLive |-> TRUE]
      ELSE [rc |-> U2FS_OK, challenge |-> c, origin |-> o,
            joLive |-> FALSE]

(***************************************************************************)
(* The JSON envelope of a response.  A string member stands for a base64   *)
(* text; the bytes it decodes to are drawn by the step that decodes it.    *)
(* The text of a number ("5") decodes to no bytes.                         *)
(***************************************************************************)
B64Text == <<66>>
EnvelopeMembers == {JMissing, JNull, JNum, JStr(B64Text)}

RegResponses ==
  [registrationData : EnvelopeMembers, clientData : EnvelopeMembers]
    \cup {Malformed}

AuthResponses ==
  [signatureData : EnvelopeMembers, clientData : EnvelopeMembers,
   keyHandle : EnvelopeMembers] \cup {Malformed}

\* parse_registration_response: the code, the out-parameters as it leaves
\* them, and whether the parsed object is still allocated on return
parse_registration_response(response) ==
  IF response = Malformed
  THEN [rc |-> U2FS_JSON_ERROR, registrationData |-> NULL,
        clientData |-> NULL, joLive |-> FALSE]
  ELSE
  LET rd == json_get_string(response.registrationData)
      cd == json_get_string(response.clientData)
  IN  IF rd = NULL
      THEN [rc |-> U2FS_JSON_ERROR, registrationData |-> NULL,
            clientData |-> NULL, joLive |-> TRUE]
      ELSE IF cd = NULL
      THEN [rc |-> U2FS_JSON_ERROR, registrationData |-> rd,
            clientData |-> NULL, joLive |-> TRUE]
      ELSE [rc |-> U2FS_OK, registrationData |-> rd, clientData |-> cd,
            joLive |-> FALSE]

parse_authentication_response(response) ==
  IF response = Malformed
  THEN [rc |-> U2FS_JSON_ERROR, signatureData |-> NULL,
        clientData |-> NULL, keyHandle |-> NULL, joLive |-> FALSE]
  ELSE
  LET sd == json_get_string(response.signatureData)
      cd == json_get_string(response.clientData)
      kh == json_get_string(response.keyHandle)
  IN  IF sd = NULL
      THEN [rc |-> U2FS_JSON_ERROR, signatureData |-> NULL,
            clientData |-> NULL, keyHandle |-> NULL, joLive |-> TRUE]
      ELSE IF cd = NULL
      THEN [rc |-> U2FS_JSON_ERROR, signatureData |-> sd,
            clientData |-> NULL, keyHandle |-> NULL, joLive |-> TRUE]
      ELSE IF kh = NULL
      THEN [rc |-> U2FS_JSON_ERROR, signatureData |-> sd,
            clientData |-> cd, keyHandle |-> NULL, joLive |-> TRUE]
      ELSE [rc |-> U2FS_OK, signatureData |-> sd, clientData |-> cd,
            keyHandle |-> kh, joLive |-> FALSE]

(***************************************************************************)
(* The ceremony context and gen_challenge.                                 *)
(***************************************************************************)
\* a context as calloc leaves it (u2fs_init)
FreshContext ==
  [challenge |-> <<>>, origin |-> NULL, appid |-> NULL,
   keyHandle |-> NULL, key |-> NULL]

\* gen_challenge without the test of ctx->challenge[0]
gen_challenge_AlwaysDraws(c, buf) ==
  [rc |-> encode_b64u(buf).rc, challenge |-> encode_b64u(buf).output,
   drawn |-> TRUE]

\* gen_challenge with the buffer set_random_bytes fills: the code and the
\* challenge field afterwards
gen_challenge(c, buf) ==
  IF c.challenge # <<>>
  THEN [rc |-> U2FS_OK, challenge |-> c.challenge, drawn |-> FALSE]
  ELSE [rc |-> encode_b64u(buf).rc, challenge |-> encode_b64u(buf).output,
        drawn |-> TRUE]

\* verify_ECDSA (crypto.c): the digest, the message the signature bytes
\* are a signature of under the verifying key, and the key
verify_ECDSA(dgst, signedDigest, key) ==
  IF key = NULL THEN U2FS_MEMORY_ERROR
  ELSE IF signedDigest = dgst THEN U2FS_OK
  ELSE U2FS_SIGNATURE_ERROR

(***************************************************************************)
(* State.                                                                  *)
(*   ctx    the ceremony context                                           *)
(*   pc     the statement group a verification call is at; "idle" between  *)
(*          calls, "returned" when the call has returned, "crashed" when   *)
(*          undefined behaviour has ended the process                      *)
(*   rc     the local rc of the call, its return value at "returned"       *)
(*   loc    the pointer and scalar locals of the call                      *)
(*   out    *output                                                        *)
(*   heap   the blocks the call has allocated and not released             *)
(*   calls  the checks and library calls of the call, in order             *)
(*   seen   what the call was given and computed, kept for the properties  *)
(*   unit   one run of parse_registrationData2 on its own: the input and   *)
(*          the result (used by SpecFramer only)                           *)
(*   op     the last context operation made between two verification       *)
(*          calls: its name, argument, return code and output, whether it  *)
(*          drew random bytes, and the context it was made on              *)
(***************************************************************************)
VARIABLES ctx, pc, rc, loc, out, heap, calls, seen, unit, op

vars == <<ctx, pc, rc, loc, out, heap, calls, seen, unit, op>>

NoLocals ==
  [registrationData |-> NULL, signatureData |-> NULL, clientData |-> NULL,
   clientData_decoded |-> NULL, user_public_key |-> NULL,
   keyHandle_len |-> 0, keyHandle |-> NULL, origin |-> NULL,
   challenge |-> NULL, attestation_certificate |-> NULL,
   signature |-> NULL, key |-> NULL, user_presence |-> 0,
   counter |-> <<0, 0, 0, 0>>]

NoTranscript == [built |-> FALSE]

NothingSeen ==
  [flow |-> "none", sig |-> NoSigResult,
   clientDataBytes |-> NULL, transcript |-> NoTranscript,
   deviceTranscript |-> NoTranscript, ctxAtCall |-> FreshContext,
   host |-> "none", response |-> NULL, keyHandle |-> NULL,
   user_public_key |-> NULL]

NoOp ==
  [name |-> "none", arg |-> <<>>, rc |-> "none", output |-> NULL,
   drawn |-> FALSE, before |-> FreshContext]

NoUnit == [ran |-> FALSE, p |-> <<>>, orc |-> <<>>, r |-> NoFramerResult]

\* the heap blocks behind the non-null pointers among these locals
Blocks(l, names) == {n \in names : l[n] # NULL}

Init ==
  /\ ctx = FreshContext
  /\ pc = "idle"
  /\ rc = "none"
  /\ loc = NoLocals
  /\ out = NULL
  /\ heap = {}
  /\ calls = <<>>
  /\ seen = NothingSeen
  /\ unit = NoUnit
  /\ op = NoOp

CallUnchanged == UNCHANGED <<pc, rc, loc, out, heap, calls, seen, unit>>

\* what strlen and sha256_process read behind a null ctx->appid
GarbageString == <<255, 255>>

(***************************************************************************)
(* Context setters.                                                        *)
(***************************************************************************)
\* the return of a context operation, kept in op
Done(name, arg, code, output, drawn) ==
  [name |-> name, arg |-> arg, rc |-> code, output |-> output,
   drawn |-> drawn, before |-> ctx]

\* the challenges set_challenge is called with: 43, 42 and 44 characters
\* and none
SetChallengeArgs == {ChalA, ChalShort, ChalLong, <<>>}

\* set_challenge storing a string of any length
u2fs_set_challenge_NoLengthCheck ==
  /\ pc = "idle"
  /\ \E challenge \in SetChallengeArgs :
       /\ ctx' = [ctx EXCEPT !.challenge = challenge]
       /\ op' = Done("set_challenge", challenge, U2FS_OK, NULL, FALSE)
  /\ CallUnchanged

u2fs_set_challenge ==
  /\ pc = "idle"
  /\ \E challenge \in SetChallengeArgs :
       IF strlen(challenge) # U2FS_CHALLENGE_B64U_LEN
       THEN /\ op' = Done("set_challenge", challenge, U2FS_CHALLENGE_ERROR,
                          NULL, FALSE)
            /\ UNCHANGED ctx
       ELSE /\ op' = Done("set_challenge", challenge, U2FS_OK, NULL, FALSE)
            /\ ctx' = [ctx EXCEPT !.challenge = challenge]
  /\ CallUnchanged

u2fs_set_keyHandle ==
  /\ pc = "idle"
  /\ ctx' = [ctx EXCEPT !.keyHandle = Ptr(KeyHandleA)]
  /\ op' = Done("set_keyHandle", KeyHandleA, U2FS_OK, NULL, FALSE)
  /\ CallUnchanged

u2fs_set_origin ==
  /\ pc = "idle"
  /\ ctx' = [ctx EXCEPT !.origin = Ptr(OriginA)]
  /\ op' = Done("set_origin", OriginA, U2FS_OK, NULL, FALSE)
  /\ CallUnchanged

u2fs_set_appid ==
  /\ pc = "idle"
  /\ ctx' = [ctx EXCEPT !.appid = Ptr(AppIdA)]
  /\ op' = Done("set_appid", AppIdA, U2FS_OK, NULL, FALSE)
  /\ CallUnchanged

u2fs_set_publicKey ==
  /\ pc = "idle"
  /\ \E publicKey \in {GoodKey, BadKey} :
       LET d == decode_user_key(publicKey)
       IN  /\ op' = Done("set_publicKey", publicKey, d.rc, NULL, FALSE)
           /\ IF d.rc # U2FS_OK
              THEN UNCHANGED ctx
              ELSE ctx' = [ctx EXCEPT !.key = d.key]
  /\ CallUnchanged

(***************************************************************************)
(* The challenge calls.  The JSON text they return is held as the object   *)
(* it serialises; json_object_new_string on a null ctx->appid is           *)
(* undefined: the process ends, or the member holds what lies there.       *)
(***************************************************************************)
U2F_VERSION == "U2F_V2"

registration_challenge_json(challenge, appid) ==
  [rc |-> U2FS_OK,
   output |-> Ptr([challenge |-> challenge, version |-> U2F_VERSION,
                   appId |-> appid])]

authentication_challenge_json(challenge, keyHandle, appid) ==
  [rc |-> U2FS_OK,
   output |-> Ptr([keyHandle |-> keyHandle, version |-> U2F_VERSION,
                   challenge |-> challenge, appId |-> appid])]

\* what a challenge call returns without reaching the JSON builder
NoJson(code, challenge, drawn) ==
  [rc |-> code, challenge |-> challenge, output |-> NULL, drawn |-> drawn,
   json |-> FALSE]

\* u2fs_registration_challenge: the code, the challenge field afterwards,
\* *output if it was written, whether random bytes were drawn and whether
\* the JSON builder was reached
registration_challenge(c, buf, appid) ==
  LET g == gen_challenge(c, buf)
      j == registration_challenge_json(g.challenge, appid)
  IN  IF g.rc # U2FS_OK
      THEN NoJson(g.rc, g.challenge, g.drawn)
      ELSE [rc |-> j.rc, challenge |-> g.challenge, output |-> j.output,
            drawn |-> g.drawn, json |-> TRUE]

\* the call with the challenge generated before the key handle is looked at
authentication_challenge_GenFirst(c, buf, appid) ==
  LET g == gen_challenge(c, buf)
      j == authentication_challenge_json(g.challenge, Deref(c.keyHandle),
                                         appid)
  IN  IF g.rc # U2FS_OK
      THEN NoJson(g.rc, g.challenge, g.drawn)
      ELSE IF c.keyHandle = NULL
      THEN NoJson(U2FS_MEMORY_ERROR, g.challenge, g.drawn)
      ELSE [rc |-> j.rc, challenge |-> g.challenge, output |-> j.output,
            drawn |-> g.drawn, json |-> TRUE]

\* u2fs_authentication_challenge
authentication_challenge(c, buf, appid) ==
  IF c.keyHandle = NULL
  THEN NoJson(U2FS_MEMORY_ERROR, c.challenge, FALSE)
  ELSE
  LET g == gen_challenge(c, buf)
      j == authentication_challenge_json(g.challenge, Deref(c.keyHandle),
                                         appid)
  IN  IF g.rc # U2FS_OK
      THEN NoJson(g.rc, g.challenge, g.drawn)
      ELSE [rc |-> j.rc, challenge |-> g.challenge, output |-> j.output,
            drawn |-> g.drawn, json |-> TRUE]

\* a challenge call as a step: r is what the call computes on ctx
ChallengeCall(name, r, undefined) ==
  /\ ctx' = [ctx EXCEPT !.challenge = r.challenge]
  /\ IF r.json /\ ctx.appid = NULL /\ undefined = "crash"
     THEN /\ pc' = "crashed"
          /\ op' = Done(name, <<>>, "none", NULL, r.drawn)
     ELSE /\ pc' = pc
          /\ op' = Done(name, <<>>, r.rc, r.output, r.drawn)
  /\ UNCHANGED <<rc, loc, out, heap, calls, seen, unit>>

u2fs_registration_challenge ==
  /\ pc = "idle"
  /\ \E buf \in RandomBuffers, undefined \in {"crash", "garbage"} :
       ChallengeCall("registration_challenge",
                     registration_challenge(ctx, buf,
                       IF ctx.appid = NULL THEN GarbageString
                       ELSE Deref(ctx.appid)),
                     undefined)

u2fs_authentication_challenge ==
  /\ pc = "idle"
  /\ \E buf \in RandomBuffers, undefined \in {"crash", "garbage"} :
       ChallengeCall("authentication_challenge",
                     authentication_challenge(ctx, buf,
                       IF ctx.appid = NULL THEN GarbageString
                       ELSE Deref(ctx.appid)),
                     undefined)

(***************************************************************************)
(* Statement groups shared by the two verification flows.                  *)
(***************************************************************************)
Goto(ok, next, failure) == IF ok THEN next ELSE failure

\* rc = decode_clientData(clientData, &clientData_decoded)
DecodeClientDataStep(here, next) ==
  /\ pc = here
  /\ \E drawn \in DecodedClientData :
       LET decoded == IF Deref(loc.clientData) = B64Text THEN drawn
                      ELSE [text |-> Malformed, tail |-> <<>>]
           r == decode_clientData(decoded)
       IN  /\ loc' = [loc EXCEPT !.clientData_decoded = r.output]
           /\ seen' = [seen EXCEPT !.clientDataBytes = Ptr(decoded)]
           /\ rc' = r.rc
  /\ heap' = heap \cup {"clientData_decoded"}
  /\ pc' = next
  /\ calls' = Append(calls, "clientData_decode")
  /\ UNCHANGED <<ctx, out, unit, op>>

\* rc = parse_clientData(clientData_decoded, &challenge, &origin)
ParseClientDataStep(here, next, failure) ==
  /\ pc = here
  /\ LET r == parse_clientData(Deref(loc.clientData_decoded))
     IN  /\ loc' = [loc EXCEPT !.challenge = r.challenge,
                               !.origin = r.origin]
         /\ heap' = heap \cup Blocks(r, {"challenge", "origin"})
                         \cup (IF r.joLive THEN {"json_clientData"} ELSE {})
         /\ rc' = r.rc
         /\ pc' = Goto(r.rc = U2FS_OK, next, failure)
  /\ calls' = Append(calls, "clientData_parse")
  /\ UNCHANGED <<ctx, out, seen, unit, op>>

\* the check with its goto failure left out
CheckChallengeStep_NoGoto(here, next, failure) ==
  /\ pc = here
  /\ pc' = next
  /\ IF strcmp0(ctx.challenge, Deref(loc.challenge))
     THEN /\ calls' = Append(calls, "challenge_ok")
          /\ UNCHANGED rc
     ELSE /\ calls' = Append(calls, "challenge_mismatch")
          /\ rc' = U2FS_CHALLENGE_ERROR
  /\ UNCHANGED <<ctx, loc, out, heap, seen, unit, op>>

\* if (strcmp(ctx->challenge, challenge) != 0)
CheckChallengeStep(here, next, failure) ==
  /\ pc = here
  /\ IF strcmp0(ctx.challenge, Deref(loc.challenge))
     THEN /\ pc' = next
          /\ calls' = Append(calls, "challenge_ok")
          /\ UNCHANGED rc
     ELSE /\ pc' = failure
          /\ calls' = Append(calls, "challenge_mismatch")
          /\ rc' = U2FS_CHALLENGE_ERROR
  /\ UNCHANGED <<ctx, loc, out, heap, seen, unit, op>>

\* if (strcmp(ctx->origin, origin) != 0); strcmp on a null ctx->origin is
\* undefined: the process ends, or the call goes on either way
CheckOriginStep(here, next, failure) ==
  /\ pc = here
  /\ \E undefined \in {"crash", "equal", "differ"} :
       LET equal == IF ctx.origin = NULL THEN undefined = "equal"
                    ELSE strcmp0(Deref(ctx.origin), Deref(loc.origin))
       IN  IF ctx.origin = NULL /\ undefined = "crash"
           THEN /\ pc' = "crashed"
                /\ UNCHANGED <<rc, calls>>
           ELSE IF equal
           THEN /\ pc' = next
                /\ calls' = Append(calls, "origin_ok")
                /\ UNCHANGED rc
           ELSE /\ pc' = failure
                /\ calls' = Append(calls, "origin_mismatch")
                /\ rc' = U2FS_ORIGIN_ERROR
  /\ UNCHANGED <<ctx, loc, out, heap, seen, unit, op>>

\* a message that is neither the transcript the code builds nor the one the
\* device signs
JunkTranscript == [built |-> TRUE, junk |-> TRUE]

\* rc = verify_ECDSA(dgst, U2FS_HASH_LEN, signature, key); the signature
\* bytes of the response are a signature of the transcript the code built,
\* of the transcript the device signs, or of neither
VerifySignatureStep(here, key, next, failure) ==
  /\ pc = here
  /\ \E signedT \in {seen.transcript, seen.deviceTranscript, JunkTranscript} :
       LET r == verify_ECDSA(Hash(seen.transcript), Hash(signedT), key)
       IN  /\ rc' = r
           /\ pc' = Goto(r = U2FS_OK, next, failure)
           /\ calls' = calls \o (IF r = U2FS_OK
                                 THEN <<"verify_ECDSA", "verify_ok">>
                                 ELSE <<"verify_ECDSA">>)
  /\ UNCHANGED <<ctx, loc, out, heap, seen, unit, op>>

(***************************************************************************)
(* u2fs_registration_verify.                                               *)
(***************************************************************************)
RegLocals ==
  {"key", "clientData_decoded", "challenge", "origin",
   "attestation_certificate", "user_public_key", "signature",
   "registrationData", "clientData", "keyHandle"}

ReservedBytes == {RegistrationReservedByte, 0}

RegParams(b0s, keys, Ls, ders) ==
  UNION {[b0 : b0s, key : keys, L : {L}, der : {der}, len : RegLens(L, der)] :
           L \in Ls, der \in ders}

\* the blobs the flow is run on: every key-handle length under one DER
\* length, a key that is no point of the curve, a wrong reserved byte
RegBlobParams ==
  RegParams({RegistrationReservedByte}, {GoodKey}, KeyHandleLens,
            {<<0, 60>>})
    \cup RegParams(ReservedBytes, {GoodKey, BadKey}, {0}, {<<0, 60>>})

\* the locals set to NULL and *output = NULL
RegVerify_Enter ==
  /\ pc = "idle"
  /\ pc' = "reg_parse_response"
  /\ rc' = "none"
  /\ loc' = NoLocals
  /\ out' = NULL
  /\ heap' = {}
  /\ calls' = <<>>
  /\ seen' = [NothingSeen EXCEPT !.flow = "reg", !.ctxAtCall = ctx]
  /\ op' = NoOp
  /\ UNCHANGED <<ctx, unit>>

\* rc = parse_registration_response(response, &registrationData, &clientData)
RegVerify_ParseResponse ==
  /\ pc = "reg_parse_response"
  /\ \E response \in RegResponses :
       LET r == parse_registration_response(response)
       IN  /\ loc' = [loc EXCEPT !.registrationData = r.registrationData,
                                 !.clientData = r.clientData]
           /\ heap' = heap \cup Blocks(r, {"registrationData", "clientData"})
                           \cup (IF r.joLive THEN {"json_response"} ELSE {})
           /\ rc' = r.rc
           /\ pc' = Goto(r.rc = U2FS_OK, "reg_parse_registrationData",
                         "reg_failure")
           /\ seen' = [seen EXCEPT !.response = Ptr(response)]
  /\ calls' = Append(calls, "json_parse")
  /\ UNCHANGED <<ctx, out, unit, op>>

\* rc = parse_registrationData(registrationData, ...): the base64 text is
\* decoded into a buffer, parse_registrationData2 runs on it and the
\* buffer is freed
RegVerify_ParseRegistrationData ==
  /\ pc = "reg_parse_registrationData"
  /\ \E p \in RegBlobParams, orc \in FramerOracles :
       LET isText == Deref(loc.registrationData) = B64Text
           data_len == IF isText THEN p.len ELSE 0
           data == RegBlob(p.b0, p.key, p.L, p.der[1], p.der[2], data_len)
           r == parse_registrationData2(data, data_len, orc)
       IN  /\ loc' = [loc EXCEPT
                        !.user_public_key = r.user_public_key,
                        !.keyHandle_len = r.keyHandle_len,
                        !.keyHandle = r.keyHandle,
                        !.attestation_certificate = r.attestation_certificate,
                        !.signature = r.signature]
           /\ heap' = heap \cup
                Blocks(r, {"user_public_key", "keyHandle",
                           "attestation_certificate", "signature"})
           /\ rc' = r.rc
           /\ pc' = Goto(r.rc = U2FS_OK, "reg_extract_key", "reg_failure")
           /\ seen' = [seen EXCEPT !.keyHandle = r.keyHandle,
                                   !.user_public_key = r.user_public_key]
  /\ calls' = Append(calls, "binary_parse")
  /\ UNCHANGED <<ctx, out, unit, op>>

\* rc = extract_EC_KEY_from_X509(attestation_certificate, &key)
RegVerify_ExtractKey ==
  /\ pc = "reg_extract_key"
  /\ \E hasEcKey \in BOOLEAN :
       /\ loc' = [loc EXCEPT !.key = IF hasEcKey THEN Ptr("EC_KEY") ELSE NULL]
       /\ heap' = heap \cup (IF hasEcKey THEN {"key"} ELSE {})
       /\ rc' = IF hasEcKey THEN U2FS_OK ELSE U2FS_CRYPTO_ERROR
       /\ pc' = Goto(hasEcKey, "reg_decode_clientData", "reg_failure")
  /\ calls' = Append(calls, "key_extract")
  /\ UNCHANGED <<ctx, out, seen, unit, op>>

RegVerify_DecodeClientData ==
  DecodeClientDataStep("reg_decode_clientData", "reg_parse_clientData")

RegVerify_ParseClientData ==
  ParseClientDataStep("reg_parse_clientData", "reg_gen_challenge",
                      "reg_failure")

\* rc = gen_challenge(ctx)
RegVerify_GenChallenge ==
  /\ pc = "reg_gen_challenge"
  /\ \E buf \in RandomBuffers :
       LET g == gen_challenge(ctx, buf)
       IN  /\ ctx' = [ctx EXCEPT !.challenge = g.challenge]
           /\ rc' = g.rc
           /\ pc' = Goto(g.rc = U2FS_OK, "reg_check_challenge", "reg_failure")
  /\ calls' = Append(calls, "gen_challenge")
  /\ UNCHANGED <<loc, out, heap, seen, unit, op>>

RegVerify_CheckChallenge ==
  CheckChallengeStep("reg_check_challenge", "reg_check_origin", "reg_failure")

RegVerify_CheckOrigin ==
  CheckOriginStep("reg_check_origin", "reg_build_transcript", "reg_failure")

\* the registration transcript: 0x00, SHA256(appid), SHA256(clientData),
\* key handle, user public key; strlen of a null ctx->appid is undefined
RegTranscript(appid, clientDataHashed, keyHandle, user_public_key) ==
  [built |-> TRUE, prefix |-> 0,
   application_parameter |-> Hash(appid),
   challenge_parameter |-> Hash(clientDataHashed),
   keyHandle |-> keyHandle,
   user_public_key |-> user_public_key]

RegVerify_BuildTranscript ==
  /\ pc = "reg_build_transcript"
  /\ \E undefined \in {"crash", "garbage"} :
       IF ctx.appid = NULL /\ undefined = "crash"
       THEN /\ pc' = "crashed"
            /\ UNCHANGED <<seen, calls>>
       ELSE LET appid == IF ctx.appid = NULL THEN GarbageString
                         ELSE Deref(ctx.appid)
            IN  /\ seen' = [seen EXCEPT
                     !.transcript =
                        RegTranscript(appid,
                          HashedPrefix(Deref(loc.clientData_decoded)),
                          Deref(loc.keyHandle), Deref(loc.user_public_key)),
                     !.deviceTranscript =
                        RegTranscript(appid, Deref(seen.clientDataBytes),
                          Deref(loc.keyHandle), Deref(loc.user_public_key))]
                /\ pc' = "reg_verify"
                /\ calls' = Append(calls, "transcript")
  /\ UNCHANGED <<ctx, rc, loc, out, heap, unit, op>>

RegVerify_VerifySignature ==
  VerifySignatureStep("reg_verify", loc.key, "reg_build_result",
                      "reg_failure")

NoRegResult ==
  [keyHandle |-> NULL, publicKey |-> NULL,
   attestation_certificate_PEM |-> NULL, attestation_certificate |-> NULL,
   user_public_key |-> NULL]

\* the blocks a registration result owns (u2fs_free_reg_res frees them)
RegResultBlocks ==
  {"output", "output.keyHandle", "output.publicKey",
   "output.attestation_certificate_PEM", "output.attestation_certificate",
   "output.user_public_key"}

\* dump_user_key and dump_X509_cert (crypto.c) fail only for lack of
\* memory or inside the crypto library
ResultFaults == {"none", "dump_user_key", "dump_X509_cert"}

\* From *output = calloc(...) to the last check before the frees: the code,
\* *output and the blocks allocated on the way.
build_registration_result(l, fault) ==
  LET e == encode_b64u(Deref(l.keyHandle))
      d == decode_user_key(Deref(l.user_public_key))
      r1 == [NoRegResult EXCEPT !.keyHandle = Ptr(e.output)]
      r2 == [r1 EXCEPT !.attestation_certificate = Ptr("X509")]
      r3 == [r2 EXCEPT !.publicKey = Ptr(Deref(d.key).point)]
      r4 == [r3 EXCEPT !.attestation_certificate_PEM = Ptr("PEM")]
  IN  IF e.rc # U2FS_OK
      THEN [rc |-> e.rc, output |-> Ptr(NoRegResult), blocks |-> {"output"}]
      ELSE IF d.rc # U2FS_OK
      THEN [rc |-> d.rc, output |-> Ptr(r1),
            blocks |-> {"output", "output.keyHandle"}]
      ELSE IF fault = "dump_user_key"
      THEN [rc |-> U2FS_CRYPTO_ERROR, output |-> Ptr(r2),
            blocks |-> {"output", "output.keyHandle", "key_ptr",
                        "output.attestation_certificate"}]
      ELSE IF fault = "dump_X509_cert"
      THEN [rc |-> U2FS_CRYPTO_ERROR, output |-> Ptr(r3),
            blocks |-> {"output", "output.keyHandle", "key_ptr",
                        "output.attestation_certificate",
                        "output.publicKey"}]
      ELSE [rc |-> U2FS_OK, output |-> Ptr(r4),
            blocks |-> {"output", "output.keyHandle", "key_ptr",
                        "output.attestation_certificate",
                        "output.publicKey",
                        "output.attestation_certificate_PEM"}]

\* free_sig(signature), the result is built, and on success every local is
\* freed and the call returns U2FS_OK
RegVerify_BuildResult ==
  /\ pc = "reg_build_result"
  /\ \E fault \in ResultFaults :
       LET b == build_registration_result(loc, fault)
           sigFreed == [loc EXCEPT !.signature = NULL]
       IN  /\ out' = b.output
           /\ rc' = b.rc
           /\ IF b.rc = U2FS_OK
              THEN /\ loc' = [n \in DOMAIN loc |->
                                IF n \in RegLocals THEN NULL ELSE loc[n]]
                   /\ heap' = ((heap \ {"signature"}) \cup b.blocks)
                                \ RegLocals
                   /\ pc' = "returned"
              ELSE /\ loc' = sigFreed
                   /\ heap' = (heap \ {"signature"}) \cup b.blocks
                   /\ pc' = "reg_failure"
  /\ calls' = Append(calls, "result")
  /\ UNCHANGED <<ctx, seen, unit, op>>

\* failure: each local that is not NULL is freed; return rc
RegVerify_Failure ==
  /\ pc = "reg_failure"
  /\ heap' = heap \ Blocks(loc, RegLocals)
  /\ loc' = [n \in DOMAIN loc |-> IF n \in RegLocals THEN NULL ELSE loc[n]]
  /\ pc' = "returned"
  /\ UNCHANGED <<ctx, rc, out, calls, seen, unit, op>>

\* the caller takes rc and the result and releases the result; the model
\* follows one call's heap at a time
u2fs_free_reg_res ==
  /\ pc = "returned"
  /\ seen.flow = "reg"
  /\ pc' = "idle"
  /\ rc' = "none"
  /\ loc' = NoLocals
  /\ out' = NULL
  /\ heap' = {}
  /\ calls' = <<>>
  /\ seen' = NothingSeen
  /\ UNCHANGED <<ctx, unit, op>>

(***************************************************************************)
(* u2fs_authentication_verify.                                             *)
(***************************************************************************)
AuthLocals ==
  {"clientData_decoded", "challenge", "origin", "signature",
   "signatureData", "clientData", "keyHandle"}

AuthResultBlocks == {"output"}

AuthVerify_Enter ==
  /\ pc = "idle"
  /\ pc' = "auth_parse_response"
  /\ rc' = "none"
  /\ loc' = NoLocals
  /\ out' = NULL
  /\ heap' = {}
  /\ calls' = <<>>
  /\ seen' = [NothingSeen EXCEPT !.flow = "auth", !.ctxAtCall = ctx]
  /\ op' = NoOp
  /\ UNCHANGED <<ctx, unit>>

\* rc = parse_authentication_response(response, &signatureData,
\*                                    &clientData, &keyHandle)
AuthVerify_ParseResponse ==
  /\ pc = "auth_parse_response"
  /\ \E response \in AuthResponses :
       LET r == parse_authentication_response(response)
       IN  /\ loc' = [loc EXCEPT !.signatureData = r.signatureData,
                                 !.clientData = r.clientData,
                                 !.keyHandle = r.keyHandle]
           /\ heap' = heap \cup
                Blocks(r, {"signatureData", "clientData", "keyHandle"})
                \cup (IF r.joLive THEN {"json_response"} ELSE {})
           /\ rc' = r.rc
           /\ pc' = Goto(r.rc = U2FS_OK, "auth_parse_signatureData",
                         "auth_failure")
           /\ seen' = [seen EXCEPT !.response = Ptr(response)]
  /\ calls' = Append(calls, "json_parse")
  /\ UNCHANGED <<ctx, out, unit, op>>

\* rc = parse_signatureData(signatureData, &user_presence, &counter,
\*                          &signature)
AuthVerify_ParseSignatureData ==
  /\ pc = "auth_parse_signatureData"
  /\ \E presence \in PresenceBytes, ctr \in CounterBytes, len \in SigLens,
        orc \in FramerOracles :
       LET isText == Deref(loc.signatureData) = B64Text
           data_len == IF isText THEN len ELSE 0
           data == SigBlob(presence, ctr, data_len)
           r == parse_signatureData2(data, data_len, orc)
       IN  /\ loc' = [loc EXCEPT !.user_presence = r.user_presence,
                                 !.counter = r.counter,
                                 !.signature = r.signature]
           /\ heap' = heap \cup Blocks(r, {"signature"})
           /\ seen' = [seen EXCEPT !.sig = r]
           /\ rc' = r.rc
           /\ pc' = Goto(r.rc = U2FS_OK, "auth_decode_clientData",
                         "auth_failure")
           /\ calls' = calls \o (IF r.decoderCalled
                                 THEN <<"binary_parse", "decode_ECDSA">>
                                 ELSE <<"binary_parse">>)
  /\ UNCHANGED <<ctx, out, unit, op>>

AuthVerify_DecodeClientData ==
  DecodeClientDataStep("auth_decode_clientData", "auth_parse_clientData")

AuthVerify_ParseClientData ==
  ParseClientDataStep("auth_parse_clientData", "auth_check_challenge",
                      "auth_failure")

AuthVerify_CheckChallenge ==
  CheckChallengeStep("auth_check_challenge", "auth_check_origin",
                     "auth_failure")

AuthVerify_CheckOrigin ==
  CheckOriginStep("auth_check_origin", "auth_build_transcript",
                  "auth_failure")

\* the authentication transcript: SHA256(appid), user presence, counter,
\* SHA256(clientData)
AuthTranscript(appid, user_presence, counter, clientDataHashed) ==
  [built |-> TRUE,
   application_parameter |-> Hash(appid),
   user_presence |-> user_presence,
   counter |-> counter,
   challenge_parameter |-> Hash(clientDataHashed)]

AuthVerify_BuildTranscript ==
  /\ pc = "auth_build_transcript"
  /\ \E undefined \in {"crash", "garbage"} :
       IF ctx.appid = NULL /\ undefined = "crash"
       THEN /\ pc' = "crashed"
            /\ UNCHANGED <<seen, calls>>
       ELSE LET appid == IF ctx.appid = NULL THEN GarbageString
                         ELSE Deref(ctx.appid)
            IN  /\ seen' = [seen EXCEPT
                     !.transcript =
                        AuthTranscript(appid, loc.user_presence, loc.counter,
                          HashedPrefix(Deref(loc.clientData_decoded))),
                     !.deviceTranscript =
                        AuthTranscript(appid, seen.sig.raw_presence,
                          loc.counter, Deref(seen.clientDataBytes))]
                /\ pc' = "auth_verify"
                /\ calls' = Append(calls, "transcript")
  /\ UNCHANGED <<ctx, rc, loc, out, heap, unit, op>>

AuthVerify_VerifySignature ==
  VerifySignatureStep("auth_verify", ctx.key, "auth_build_result",
                      "auth_failure")

\* the byte orders of the hosts the library is built for
HostByteOrders == {"little", "big"}

\* the uint32_t whose four bytes in memory are these, as memcpy left them
LoadU32(bytes, host) ==
  IF host = "little"
  THEN bytes[1] + bytes[2] * 256 + bytes[3] * 65536 + bytes[4] * 16777216
  ELSE bytes[4] + bytes[3] * 256 + bytes[2] * 65536 + bytes[1] * 16777216

\* counter_num: the four shifts and masks that reverse the bytes of counter
SwapU32(counter) ==
  ((counter \div 16777216) % 256)
    + (((counter \div 65536) % 256) * 256)
    + (((counter \div 256) % 256) * 65536)
    + ((counter % 256) * 16777216)

\* free_sig(signature), the result is filled in, every local is freed and
\* the call returns U2FS_OK
AuthVerify_BuildResult ==
  /\ pc = "auth_build_result"
  /\ \E host \in HostByteOrders :
       /\ out' = Ptr([verified |-> U2FS_OK,
                      user_presence |-> loc.user_presence,
                      counter |-> SwapU32(LoadU32(loc.counter, host))])
       /\ seen' = [seen EXCEPT !.host = host]
  /\ loc' = [n \in DOMAIN loc |->
               IF n \in (AuthLocals \ {"signature"}) \cup {"signature"}
               THEN NULL ELSE loc[n]]
  /\ heap' = ((heap \ {"signature"}) \cup {"output"})
               \ (AuthLocals \ {"signature"})
  /\ rc' = U2FS_OK
  /\ pc' = "returned"
  /\ calls' = Append(calls, "result")
  /\ UNCHANGED <<ctx, unit, op>>

AuthVerify_Failure ==
  /\ pc = "auth_failure"
  /\ heap' = heap \ Blocks(loc, AuthLocals)
  /\ loc' = [n \in DOMAIN loc |-> IF n \in AuthLocals THEN NULL ELSE loc[n]]
  /\ pc' = "returned"
  /\ UNCHANGED <<ctx, rc, out, calls, seen, unit, op>>

u2fs_free_auth_res ==
  /\ pc = "returned"
  /\ seen.flow = "auth"
  /\ pc' = "idle"
  /\ rc' = "none"
  /\ loc' = NoLocals
  /\ out' = NULL
  /\ heap' = {}
  /\ calls' = <<>>
  /\ seen' = NothingSeen
  /\ UNCHANGED <<ctx, unit, op>>

Next ==
  \/ u2fs_set_challenge
  \/ u2fs_set_origin
  \/ u2fs_set_appid
  \/ u2fs_set_publicKey
  \/ u2fs_set_keyHandle
  \/ u2fs_registration_challenge
  \/ u2fs_authentication_challenge
  \/ RegVerify_Enter
  \/ RegVerify_ParseResponse
  \/ RegVerify_ParseRegistrationData
  \/ RegVerify_ExtractKey
  \/ RegVerify_DecodeClientData
  \/ RegVerify_ParseClientData
  \/ RegVerify_GenChallenge
  \/ RegVerify_CheckChallenge
  \/ RegVerify_CheckOrigin
  \/ RegVerify_BuildTranscript
  \/ RegVerify_VerifySignature
  \/ RegVerify_BuildResult
  \/ RegVerify_Failure
  \/ u2fs_free_reg_res
  \/ AuthVerify_Enter
  \/ AuthVerify_ParseResponse
  \/ AuthVerify_ParseSignatureData
  \/ AuthVerify_DecodeClientData
  \/ AuthVerify_ParseClientData
  \/ AuthVerify_CheckChallenge
  \/ AuthVerify_CheckOrigin
  \/ AuthVerify_BuildTranscript
  \/ AuthVerify_VerifySignature
  \/ AuthVerify_BuildResult
  \/ AuthVerify_Failure
  \/ u2fs_free_auth_res

Spec == Init /\ [][Next]_vars

(***************************************************************************)
(* parse_registrationData2 on its own: Init draws a blob and what the      *)
(* environment decides, the one action runs the framer on it.              *)
(***************************************************************************)
\* lengths below the framer's minimum
ShortLens ==
  {0, 1, U2FS_PUBLIC_KEY_LEN + 1}
    \cup ((RegistrationMinLen - MaxSlack)..RegistrationMinLen)

FramerParams ==
  RegParams(ReservedBytes, {GoodKey}, KeyHandleLens, DerLengths)
    \cup [b0 : ReservedBytes, key : {GoodKey}, L : KeyHandleLens,
          der : DerLengths, len : ShortLens]

InitFramer ==
  /\ ctx = FreshContext
  /\ pc = "idle"
  /\ rc = "none"
  /\ loc = NoLocals
  /\ out = NULL
  /\ heap = {}
  /\ calls = <<>>
  /\ seen = NothingSeen
  /\ unit \in [ran : {FALSE}, p : FramerParams, orc : FramerOracles,
                r : {NoFramerResult}]
  /\ op = NoOp

RunFramer ==
  /\ ~unit.ran
  /\ unit' = [unit EXCEPT
       !.ran = TRUE,
       !.r = parse_registrationData2(
               RegBlob(unit.p.b0, unit.p.key, unit.p.L, unit.p.der[1],
                       unit.p.der[2], unit.p.len),
               unit.p.len, unit.orc)]
  /\ UNCHANGED <<ctx, pc, rc, loc, out, heap, calls, seen, op>>

NextFramer == RunFramer

SpecFramer == InitFramer /\ [][NextFramer]_vars

(***************************************************************************)
(* Properties of the two verification calls (specification Spec).          *)
(***************************************************************************)
Returned == pc = "returned"

Called(what) == \E i \in DOMAIN calls : calls[i] = what

\* the blocks of the result the call hands to its caller
ResultBlocks ==
  IF seen.flow = "reg" THEN RegResultBlocks ELSE AuthResultBlocks

\* C1: whenever u2fs_registration_verify or u2fs_authentication_verify
\* returns a code other than OK, *output is null, also when the failure
\* comes after the result structure was allocated.
C1_OutputNullOnError == (Returned /\ rc # U2FS_OK) => out = NULL

\* C2: on every return of the two verification calls all intermediate
\* allocations of the call are released; only the blocks of a result
\* returned with OK stay allocated.
C2_OnlyResultAllocated ==
  Returned => heap \subseteq (IF rc = U2FS_OK THEN ResultBlocks ELSE {})

\* C3: in authentication verification, when the first byte of a
\* signatureData of at least 6 bytes has its low bit clear, the call is on
\* its way to FormatError and neither the signature decoder nor the ECDSA
\* verification has been invoked.
C3_PresenceBitRequired ==
  (/\ seen.flow = "auth"
   /\ seen.sig.presenceWritten
   /\ seen.sig.len >= U2FS_COUNTER_LEN + 2
   /\ seen.sig.raw_presence % 2 = 0)
    => /\ ~Called("decode_ECDSA")
       /\ ~Called("verify_ECDSA")
       /\ pc \in {"auth_failure", "returned"}
       /\ rc = U2FS_FORMAT_ERROR
       /\ out = NULL

C3_Witness ==
  /\ Returned
  /\ seen.flow = "auth"
  /\ seen.sig.len >= U2FS_COUNTER_LEN + 2
  /\ seen.sig.raw_presence = 2
  /\ rc = U2FS_FORMAT_ERROR

\* the place of a logged step in the order JSON parse, binary parse,
\* equality checks (with the clientData they compare), transcript, verify,
\* result
Phase(what) ==
  CASE what = "json_parse" -> 1
    [] what \in {"binary_parse", "decode_ECDSA", "key_extract"} -> 2
    [] what \in {"clientData_decode", "clientData_parse", "gen_challenge",
                 "challenge_ok", "challenge_mismatch", "origin_ok",
                 "origin_mismatch"} -> 3
    [] what = "transcript" -> 4
    [] what \in {"verify_ECDSA", "verify_ok"} -> 5
    [] OTHER -> 6

\* C4: the steps of a verification call occur in the order JSON parse,
\* binary parse, equality checks, transcript construction, ECDSA verify;
\* ECDSA verify is invoked only after the challenge check and then the
\* origin check have passed and the transcript was built, and the call
\* returns OK only if ECDSA verify was invoked and succeeded.
C4_StepOrder ==
  /\ \A i, j \in DOMAIN calls : i < j => Phase(calls[i]) <= Phase(calls[j])
  /\ \A v \in DOMAIN calls :
       calls[v] = "verify_ECDSA" =>
         \E t \in 1..(v - 1) :
           /\ calls[t] = "transcript"
           /\ \E o \in 1..(t - 1) :
                /\ calls[o] = "origin_ok"
                /\ \E c \in 1..(o - 1) :
                     /\ calls[c] = "challenge_ok"
                     /\ \E b \in 1..(c - 1) :
                          /\ calls[b] = "binary_parse"
                          /\ \E j \in 1..(b - 1) : calls[j] = "json_parse"
  /\ ~Called("challenge_mismatch") \/ ~Called("origin_ok")
  /\ (Called("challenge_mismatch") \/ Called("origin_mismatch"))
       => ~Called("verify_ECDSA")
  /\ (Returned /\ rc = U2FS_OK) => Called("verify_ok")
  /\ out # NULL => Called("verify_ok")

C4_Witness ==
  /\ Returned
  /\ rc = U2FS_OK
  /\ out # NULL
  /\ Called("verify_ok")

\* the clientData of the call parsed to a challenge and an origin, after
\* the envelope and the binary blob had parsed
ClientDataParsed ==
  /\ Called("clientData_parse")
  /\ seen.clientDataBytes # NULL
  /\ Deref(seen.clientDataBytes).text # Malformed
  /\ Deref(seen.clientDataBytes).text.challenge.kind = "string"
  /\ Deref(seen.clientDataBytes).text.origin.kind = "string"

ClientChallenge == Deref(seen.clientDataBytes).text.challenge.val
ClientOrigin == Deref(seen.clientDataBytes).text.origin.val

\* C5: once the envelope, the binary blob and the clientData have parsed,
\* a clientData challenge that differs from the context challenge makes
\* the call return ChallengeError, also when the origin differs too; an
\* equal challenge with an origin that differs from the context origin
\* makes it return OriginError.  (The context origin is set.)
C5_ChallengeBeforeOrigin ==
  (Returned /\ ClientDataParsed) =>
    /\ ClientChallenge # ctx.challenge => rc = U2FS_CHALLENGE_ERROR
    /\ (/\ ClientChallenge = ctx.challenge
        /\ ctx.origin # NULL
        /\ ClientOrigin # Deref(ctx.origin)) => rc = U2FS_ORIGIN_ERROR

C5_Witness ==
  /\ Returned
  /\ ClientDataParsed
  /\ ctx.challenge = ChalA
  /\ ClientChallenge = ChalB
  /\ ctx.origin = Ptr(OriginA)
  /\ ClientOrigin = OriginB
  /\ rc = U2FS_CHALLENGE_ERROR

(***************************************************************************)
(* Properties of parse_registrationData2 (specification SpecFramer).       *)
(***************************************************************************)
\* C6 as stated: the framer returns FormatError for every input of 132
\* bytes or fewer, the length check alone rejecting them.
C6_LengthCheckRejects132 ==
  (unit.ran /\ unit.p.len <= RegistrationMinLen + 1)
    => /\ unit.r.rc = U2FS_FORMAT_ERROR
       /\ unit.r.stage = "length"

\* C6, amended: the length check rejects the inputs of 131 bytes or fewer,
\* and only those, with FormatError and before a byte of them is read; an
\* input of 132 bytes passes the length check.
C6_LengthCheckRejects131 ==
  unit.ran =>
    /\ unit.r.stage = "length" <=> unit.p.len <= RegistrationMinLen
    /\ unit.r.stage = "length" =>
         /\ unit.r.rc = U2FS_FORMAT_ERROR
         /\ unit.r.reads = {}
         /\ unit.r.user_public_key = NULL
         /\ unit.r.keyHandle = NULL
         /\ unit.r.attestation_certificate = NULL
         /\ unit.r.signature = NULL

C6_Witness ==
  /\ unit.ran
  /\ unit.p.len = RegistrationMinLen
  /\ unit.r.stage = "length"
  /\ unit.r.rc = U2FS_FORMAT_ERROR

\* a range read lies in a buffer of len bytes; a range that ends before it
\* starts is one whose length has wrapped around
InBounds(range, len) ==
  /\ 0 <= range.lo
  /\ range.lo <= range.hi
  /\ range.hi <= len

\* the ranges the framer reads itself, by index or by memcpy
OwnReads ==
  {"reserved", "user_public_key", "keyHandle_len", "keyHandle", "der_length"}

\* C7: parse_registrationData2 never reads data at an index >= len: every
\* byte it reads by index and every range it copies lies inside the len
\* bytes of the input.
C7_NoReadPastLen ==
  unit.ran =>
    \A range \in unit.r.reads :
      range.what \in OwnReads => InBounds(range, unit.p.len)

\* C8: the framer returns FormatError whenever 67 + L + certLen > len, and
\* for an input it accepts the field lengths sum to len with a signature
\* length that is not negative (no wrap of the unsigned difference).
C8_CertificateFits ==
  (unit.ran /\ unit.r.stage \in {"certificate", "signature", "done"}) =>
    /\ unit.r.certOffset + unit.r.certLen > unit.p.len
         => unit.r.rc = U2FS_FORMAT_ERROR
    /\ unit.r.rc = U2FS_OK =>
         /\ unit.r.signature_len >= 0
         /\ 1 + U2FS_PUBLIC_KEY_LEN + 1 + unit.r.keyHandle_len
              + unit.r.certLen + unit.r.signature_len = unit.p.len
         /\ unit.r.certOffset + unit.r.certLen <= unit.p.len

(***************************************************************************)
(* Properties of the signed transcripts (specification Spec).              *)
(***************************************************************************)
\* C9: the byte hashed as user presence in the authentication transcript
\* is the first byte of signatureData as the device sent it, and the four
\* counter bytes hashed after it are the wire bytes in wire order.
C9_RawPresenceHashed ==
  (seen.flow = "auth" /\ seen.transcript.built) =>
    /\ seen.transcript.user_presence = seen.sig.raw_presence
    /\ seen.transcript.counter = seen.sig.counter

\* C10: the challenge parameter of a transcript is the SHA-256 of all the
\* decoded clientData bytes, by their decoded length, the bytes behind an
\* embedded NUL included.
C10_WholeClientDataHashed ==
  seen.transcript.built =>
    seen.transcript.challenge_parameter = Hash(Deref(seen.clientDataBytes))

(***************************************************************************)
(* Properties of the reported counter (specification Spec).                *)
(***************************************************************************)
\* four bytes read as a big-endian number, and a number written big-endian
BigEndianValue(bytes) ==
  bytes[1] * 16777216 + bytes[2] * 65536 + bytes[3] * 256 + bytes[4]

BigEndianBytes(n) ==
  <<(n \div 16777216) % 256, (n \div 65536) % 256, (n \div 256) % 256,
    n % 256>>

\* C11: a successful authentication verification reports the counter
\* b0*2^24 + b1*2^16 + b2*2^8 + b3 of the four wire bytes b0 b1 b2 b3,
\* whatever the byte order of the host, and the reported counter written
\* big-endian gives the wire bytes back.
C11_CounterBigEndian ==
  (Returned /\ seen.flow = "auth" /\ rc = U2FS_OK) =>
    /\ Deref(out).counter = BigEndianValue(seen.sig.counter)
    /\ BigEndianBytes(Deref(out).counter) = seen.sig.counter

(***************************************************************************)
(* Properties of the context operations (specification Spec).              *)
(***************************************************************************)
ChallengeCalls == {"registration_challenge", "authentication_challenge"}

\* C12: after any sequence of context operations and verification calls
\* the context challenge is unset (empty) or exactly 43 characters, and
\* set_challenge with a string of another length returns ChallengeError
\* and leaves the context as it was.
C12_ChallengeLength ==
  /\ \/ ctx.challenge = <<>>
     \/ /\ Len(ctx.challenge) = U2FS_CHALLENGE_B64U_LEN
        /\ strlen(ctx.challenge) = U2FS_CHALLENGE_B64U_LEN
  /\ (op.name = "set_challenge"
        /\ Len(op.arg) # U2FS_CHALLENGE_B64U_LEN)
       => /\ op.rc = U2FS_CHALLENGE_ERROR
          /\ ctx = op.before
  /\ (op.name = "set_challenge"
        /\ Len(op.arg) = U2FS_CHALLENGE_B64U_LEN)
       => /\ op.rc = U2FS_OK
          /\ ctx.challenge = op.arg

C12_Witness ==
  /\ op.name = "set_challenge"
  /\ op.arg = ChalLong
  /\ op.rc = U2FS_CHALLENGE_ERROR
  /\ op.before.challenge = ChalA
  /\ ctx.challenge = ChalA

\* C13: a challenge call made on a context that holds a challenge leaves
\* the challenge as it is, draws no random bytes and emits that challenge;
\* random bytes are drawn and a challenge stored only when none was set.
C13_ChallengeReused ==
  op.name \in ChallengeCalls =>
    /\ op.before.challenge # <<>> =>
         /\ ctx.challenge = op.before.challenge
         /\ ~op.drawn
         /\ op.output # NULL =>
              Deref(op.output).challenge = op.before.challenge
    /\ op.drawn => op.before.challenge = <<>>
    /\ ctx.challenge # op.before.challenge => op.drawn
    /\ op.output # NULL => Deref(op.output).challenge = ctx.challenge

C13_Witness ==
  /\ op.name = "authentication_challenge"
  /\ op.before.challenge \notin {<<>>, ChalA}
  /\ op.rc = U2FS_OK
  /\ ~op.drawn
  /\ Deref(op.output).challenge = op.before.challenge

\* C14: authentication_challenge on a context whose key handle was never
\* set returns an error, writes no JSON output and leaves the context
\* unchanged: no challenge is generated and no random bytes are drawn.
C14_NoKeyHandleNoChallenge ==
  (op.name = "authentication_challenge" /\ op.before.keyHandle = NULL) =>
    /\ op.rc = U2FS_MEMORY_ERROR
    /\ op.output = NULL
    /\ ctx = op.before
    /\ ~op.drawn
    /\ pc # "crashed"

C14_Witness ==
  /\ op.name = "authentication_challenge"
  /\ op.before.keyHandle = NULL
  /\ op.before.challenge = <<>>
  /\ op.rc = U2FS_MEMORY_ERROR
  /\ ctx.challenge = <<>>

(***************************************************************************)
(* Properties of the JSON parsers (specification Spec).                    *)
(***************************************************************************)
\* a required member of this JSON object is missing or is no string
NotAllStrings(object) ==
  /\ object # Malformed
  /\ \E k \in DOMAIN object : object[k].kind # "string"

\* C15: a registration response, an authentication response or a decoded
\* clientData in which a required key is missing or holds a value that is
\* no string (number, boolean, object, array, null) makes the verification
\* return JsonError.
C15_StrictJson ==
  Returned =>
    /\ (seen.response # NULL /\ NotAllStrings(Deref(seen.response)))
         => rc = U2FS_JSON_ERROR
    /\ (Called("clientData_parse")
          /\ NotAllStrings(Deref(seen.clientDataBytes).text))
         => rc = U2FS_JSON_ERROR

\* an authentication response whose keyHandle is a number, verified OK
C15_NumberAccepted ==
  /\ Returned
  /\ seen.flow = "auth"
  /\ rc = U2FS_OK
  /\ Deref(seen.response).keyHandle.kind = "number"

(***************************************************************************)
(* Properties of the registration result (specification Spec).             *)
(***************************************************************************)
\* the 6-bit value of a character of the websafe alphabet
B64uValue(ch) ==
  IF ch >= 65 /\ ch <= 90 THEN ch - 65
  ELSE IF ch >= 97 /\ ch <= 122 THEN ch - 97 + 26
  ELSE IF ch >= 48 /\ ch <= 57 THEN ch - 48 + 52
  ELSE IF ch = 45 THEN 62
  ELSE 63

\* the bytes a websafe base64 text without padding decodes to
B64uDecode(text) ==
  [i \in 1..((Len(text) * 3) \div 4) |->
     LET q == (i - 1) \div 3
         pos == (i - 1) % 3
         a == B64uValue(text[4 * q + pos + 1])
         b == B64uValue(text[4 * q + pos + 2])
     IN  IF pos = 0 THEN a * 4 + (b \div 16)
         ELSE IF pos = 1 THEN (a % 16) * 16 + (b \div 4)
         ELSE (a % 4) * 64 + b]

\* the three outputs of a registration verified OK
RegistrationOutputs ==
  (Returned /\ seen.flow = "reg" /\ rc = U2FS_OK) =>
    /\ out # NULL
    /\ Deref(out).keyHandle # NULL
    /\ B64uDecode(Deref(Deref(out).keyHandle)) = Deref(seen.keyHandle)
    /\ Deref(out).publicKey = seen.user_public_key
    /\ Len(Deref(Deref(out).publicKey)) = U2FS_PUBLIC_KEY_LEN
    /\ Deref(out).attestation_certificate_PEM # NULL

\* C16: a registration verified OK holds a key handle whose websafe
\* base64 decoding is the raw key handle of registrationData, the 65
\* public-key bytes of registrationData and a PEM certificate; and no
\* result object exists unless the return is OK.
C16_ResultOnlyOnSuccess ==
  /\ RegistrationOutputs
  /\ (Returned /\ seen.flow = "reg" /\ out # NULL) => rc = U2FS_OK

(***************************************************************************)
(* Properties of the context under the verification calls.                 *)
(***************************************************************************)
\* C17: the two verification calls leave every field of the context
\* (app id, origin, challenge, key handle, user public key) as it was
\* when they were called, whatever they return, also on a context without
\* a challenge.
C17_ContextUnchanged ==
  seen.flow \in {"reg", "auth"} => ctx = seen.ctxAtCall

\* C18: on a context whose challenge was never set or generated,
\* u2fs_authentication_verify never reaches the ECDSA verification and
\* never returns OK; an empty clientData challenge does not match the
\* unset challenge.
C18_UnsetChallengeRejected ==
  (seen.flow = "auth" /\ seen.ctxAtCall.challenge = <<>>) =>
    /\ ~Called("challenge_ok")
    /\ ~Called("verify_ECDSA")
    /\ ~(Returned /\ rc = U2FS_OK)

\* an authentication on a context without challenge, verified OK
C18_EmptyChallengeAccepted ==
  /\ Returned
  /\ seen.flow = "auth"
  /\ seen.ctxAtCall.challenge = <<>>
  /\ ctx.origin # NULL
  /\ ctx.appid # NULL
  /\ rc = U2FS_OK

\* C19: a verification call on a context whose origin or app id was never
\* set returns an error code for every response: the null origin is never
\* handed to the string comparison, the null app id never to the length
\* computation or the hasher, and the process does not end.
C19_NullOriginAppIdRejected ==
  seen.flow \in {"reg", "auth"} =>
    /\ ctx.origin = NULL =>
         /\ pc \notin {"reg_check_origin", "auth_check_origin"}
         /\ ~Called("origin_ok")
         /\ ~Called("origin_mismatch")
    /\ ctx.appid = NULL =>
         /\ pc \notin {"reg_build_transcript", "auth_build_transcript"}
         /\ ~Called("transcript")
    /\ (ctx.origin = NULL \/ ctx.appid = NULL) =>
         /\ pc # "crashed"
         /\ Returned => rc # U2FS_OK

====
